---- MODULE Spec2Model ----
(***************************************************************************)
(* A model of the file organizer (src/main.rs).                            *)
(*                                                                         *)
(* Strings (file names, extensions, category names) are sequences of       *)
(* one-character strings, so that extension extraction, case folding and   *)
(* the "_<N>" renaming are computed character by character.                *)
(*                                                                         *)
(* The scan root is a finite map from entry names to nodes; a category     *)
(* folder is the root entry whose name is the category's name.             *)
(***************************************************************************)
EXTENDS Integers, Sequences, FiniteSets, TLC

VARIABLES
    pc,          \* position of main: "start", "loop", "done", "exit" ("classify"/"classified" in ClassifySpec)
    args,        \* the command line: [path: status of <folder-path>, dry_run: BOOLEAN]
    fs,          \* the scan root: entry name -> node
    fs0,         \* fs when the current invocation started
    counters,    \* main's `counters` map
    seen,        \* names the read_dir iterator has yielded so far in this invocation
    failed,      \* [read: names whose entry / file type could not be read, copy: names whose mkdir / copy failed]
    classified,  \* ClassifySpec only: the file name, ext and category of lines 149-151
    copied,      \* the "Copied: src -> dest" lines printed by this invocation
    exit_status, \* <<>> while running, <<0>> or <<1>> once the process has ended
    summary,     \* <<>> or <<counters>> once the summary has been printed
    rerun,       \* TRUE in the second of two consecutive invocations on the directory
    prev         \* the summary of the first invocation, when that was a dry-run

vars == <<pc, args, fs, fs0, counters, seen, failed, classified, copied, exit_status, summary, rerun, prev>>

(***************************************************************************)
(* Bounds                                                                  *)
(***************************************************************************)
MaxEntries == 2    \* files / directories / links put into the scan root initially
MaxNameLen == 4    \* length of the file names classified in ClassifySpec

(***************************************************************************)
(* Strings                                                                 *)
(***************************************************************************)
Images == <<"I", "m", "a", "g", "e", "s">>
Documents == <<"D", "o", "c", "u", "m", "e", "n", "t", "s">>
Videos == <<"V", "i", "d", "e", "o", "s">>
Audio == <<"A", "u", "d", "i", "o">>
Archives == <<"A", "r", "c", "h", "i", "v", "e", "s">>
Code == <<"C", "o", "d", "e">>
Others == <<"O", "t", "h", "e", "r", "s">>
Errors == <<"E", "r", "r", "o", "r", "s">>

UpperToLower == [A |-> "a", B |-> "b", C |-> "c", D |-> "d", E |-> "e", F |-> "f", G |-> "g", H |-> "h", I |-> "i", J |-> "j", K |-> "k", L |-> "l", M |-> "m", N |-> "n", O |-> "o", P |-> "p", Q |-> "q", R |-> "r", S |-> "s", T |-> "t", U |-> "u", V |-> "v", W |-> "w", X |-> "x", Y |-> "y", Z |-> "z"]

LowerChar(c) == IF c \in DOMAIN UpperToLower THEN UpperToLower[c] ELSE c

\* str::to_lowercase
to_lowercase(s) == [i \in 1..Len(s) |-> LowerChar(s[i])]

Digits == <<"0", "1", "2", "3", "4", "5", "6", "7", "8", "9">>

\* format!("{}", count): the decimal digits of count
RECURSIVE Decimal(_)
Decimal(n) == IF n < 10 THEN <<Digits[n + 1]>> ELSE Decimal(n \div 10) \o <<Digits[(n % 10) + 1]>>

(***************************************************************************)
(* Path::extension and Path::file_stem of a file name.  An Option is a     *)
(* sequence of length 0 (None) or 1 (Some).                                *)
(***************************************************************************)
LastDot(name) == IF \E i \in 1..Len(name) : name[i] = "."
                 THEN CHOOSE i \in 1..Len(name) : name[i] = "." /\ \A j \in (i+1)..Len(name) : name[j] # "."
                 ELSE 0

\* mutant: a name whose only '.' is its first character has an extension
extension_LeadingDot(name) == IF LastDot(name) = 0 THEN <<>> ELSE <<SubSeq(name, LastDot(name) + 1, Len(name))>>

\* None when there is no '.', when the only '.' is the first character, and for ".."
extension(name) == IF LastDot(name) <= 1 \/ name = <<".", ".">>
                   THEN <<>>
                   ELSE <<SubSeq(name, LastDot(name) + 1, Len(name))>>

file_stem(name) == IF LastDot(name) <= 1 \/ name = <<".", ".">>
                   THEN name
                   ELSE SubSeq(name, 1, LastDot(name) - 1)

file_extension_lowercase(path) == IF extension(path) = <<>> THEN <<>> ELSE to_lowercase(extension(path)[1])

(***************************************************************************)
(* The category table and the classifier                                   *)
(***************************************************************************)
build_category_map ==
    (Images :> {<<"j", "p", "g">>, <<"j", "p", "e", "g">>, <<"p", "n", "g">>, <<"g", "i", "f">>, <<"s", "v", "g">>, <<"b", "m", "p">>, <<"w", "e", "b", "p">>})
 @@ (Documents :> {<<"p", "d", "f">>, <<"d", "o", "c">>, <<"d", "o", "c", "x">>, <<"t", "x", "t">>, <<"x", "l", "s">>, <<"x", "l", "s", "x">>, <<"p", "p", "t">>, <<"p", "p", "t", "x">>})
 @@ (Videos :> {<<"m", "p", "4">>, <<"m", "o", "v">>, <<"m", "k", "v">>, <<"w", "e", "b", "m">>, <<"a", "v", "i">>})
 @@ (Audio :> {<<"m", "p", "3">>, <<"w", "a", "v">>, <<"f", "l", "a", "c">>, <<"a", "a", "c">>})
 @@ (Archives :> {<<"z", "i", "p">>, <<"r", "a", "r">>, <<"t", "a", "r">>, <<"g", "z">>, <<"7", "z">>})
 @@ (Code :> {<<"r", "s">>, <<"p", "y">>, <<"j", "s">>, <<"t", "s">>, <<"g", "o">>, <<"j", "a", "v", "a">>, <<"c">>, <<"c", "p", "p">>, <<"h", "t", "m", "l">>, <<"c", "s", "s">>, <<"j", "s", "o", "n">>, <<"y", "a", "m", "l">>, <<"y", "m", "l">>})

\* The values category_for_extension can return: the loop runs over a HashMap,
\* whose iteration order is arbitrary, and returns the first category that
\* lists the extension; "Others" when none does.
category_for_extension(ext, categories) ==
    IF \E cat \in DOMAIN categories : ext \in categories[cat]
    THEN {cat \in DOMAIN categories : ext \in categories[cat]}
    ELSE {Others}

CounterKeys == {Images, Documents, Videos, Audio, Archives, Code, Others, Errors}
CategoryKeys == CounterKeys \ {Errors}

(***************************************************************************)
(* The file system under the scan root                                     *)
(***************************************************************************)
File(c) == [kind |-> "file", content |-> c, children |-> <<>>]
Dir(ch) == [kind |-> "dir", content |-> "", children |-> ch]
Symlink == [kind |-> "symlink", content |-> "", children |-> <<>>]
Special == [kind |-> "special", content |-> "", children |-> <<>>]   \* fifo, socket, device

a_jpg == <<"a", ".", "j", "p", "g">>
a_1_jpg == <<"a", "_", "1", ".", "j", "p", "g">>
notes == <<"n", "o", "t", "e", "s">>
sub == <<"s", "u", "b">>
link_png == <<"l", "i", "n", "k", ".", "p", "n", "g">>
pipe == <<"p", "i", "p", "e">>

\* What the scan root may hold initially, besides an Images folder.
SourcePool == {
    [name |-> a_jpg, node |-> File("A")],
    [name |-> notes, node |-> File("N")],
    [name |-> Others, node |-> File("O")],     \* a regular file named like a category folder
    [name |-> sub, node |-> Dir(<<>>)],
    [name |-> link_png, node |-> Symlink],
    [name |-> pipe, node |-> Special] }

\* An Images folder left by an earlier use of the directory.
ImagesPool == { <<>>,
                Images :> Dir(a_jpg :> "old"),
                Images :> Dir(a_1_jpg :> "old") }

RootOf(S) == [n \in {e.name : e \in S} |-> (CHOOSE e \in S : e.name = n).node]

InitialRoots == {RootOf(S) @@ img : S \in {T \in SUBSET SourcePool : Cardinality(T) <= MaxEntries}, img \in ImagesPool}

\* Path::exists of dest_dir.join(name)
exists(children, name) == name \in DOMAIN children

\* What fs::create_dir_all(dest_dir) can do: Ok when the directory is there,
\* Err when the name is taken by something that is no directory, either when
\* it has to be created (permissions, disk full).
MkdirOutcomes(fsys, dest_dir) ==
    IF dest_dir \in DOMAIN fsys
    THEN (IF fsys[dest_dir].kind = "dir" THEN {"ok"} ELSE {"err"})
    ELSE {"ok", "err"}

create_dir_all(fsys, dest_dir, env) ==
    IF env = "ok"
    THEN [ok |-> TRUE, fs |-> IF dest_dir \in DOMAIN fsys THEN fsys ELSE (dest_dir :> Dir(<<>>)) @@ fsys]
    ELSE [ok |-> FALSE, fs |-> fsys]

\* What fs::copy(src, dest) can do: it fails on a source that is no regular
\* file, and may fail on any (permissions, disk full) before or after it has
\* created the destination.
CopyOutcomes(fsys, src) == IF fsys[src].kind = "file" THEN {"ok", "err", "partial"} ELSE {"err"}

WriteChild(fsys, dest_dir, dest_name, c) ==
    [fsys EXCEPT ![dest_dir] = Dir((dest_name :> c) @@ [n \in DOMAIN @.children \ {dest_name} |-> @.children[n]])]

\* mutant: the file is moved (fs::rename) instead of copied
fs_copy_Move(fsys, src, dest_dir, dest_name, env) ==
    IF env = "ok"
    THEN [ok |-> TRUE, fs |-> [n \in DOMAIN fsys \ {src} |-> WriteChild(fsys, dest_dir, dest_name, fsys[src].content)[n]]]
    ELSE [ok |-> FALSE, fs |-> fsys]

fs_copy(fsys, src, dest_dir, dest_name, env) ==
    CASE env = "ok" -> [ok |-> TRUE, fs |-> WriteChild(fsys, dest_dir, dest_name, fsys[src].content)]
      [] env = "partial" -> [ok |-> FALSE, fs |-> WriteChild(fsys, dest_dir, dest_name, "partial")]
      [] OTHER -> [ok |-> FALSE, fs |-> fsys]

\* The loop of copy_file_to_category: the first stem_count.ext that does not exist
RECURSIVE next_free_name(_, _, _, _)
next_free_name(children, stem, ext, count) ==
    LET new_name == stem \o <<"_">> \o Decimal(count) \o ext
    IN  IF ~exists(children, new_name) THEN new_name
        ELSE next_free_name(children, stem, ext, count + 1)

\* mutant: the existence check is skipped
dest_path_NoCheck(children, file_name) == file_name

\* mutant: the counter starts at 0
dest_path_FromZero(children, file_name) ==
    IF exists(children, file_name)
    THEN next_free_name(children, file_stem(file_name),
                        IF extension(file_name) = <<>> THEN <<>> ELSE <<".">> \o extension(file_name)[1],
                        0)
    ELSE file_name

\* The name copy_file_to_category gives the copy of file_name in a folder holding `children`
dest_path(children, file_name) ==
    IF exists(children, file_name)
    THEN next_free_name(children, file_stem(file_name),
                        IF extension(file_name) = <<>> THEN <<>> ELSE <<".">> \o extension(file_name)[1],
                        1)
    ELSE file_name

CopyEnvs(fsys, src, dest_dir) ==
    {[mkdir |-> "err", copy |-> "err"] : m \in MkdirOutcomes(fsys, dest_dir) \cap {"err"}}
    \cup {[mkdir |-> "ok", copy |-> c] : c \in {x \in CopyOutcomes(fsys, src) : "ok" \in MkdirOutcomes(fsys, dest_dir)}}

copy_file_to_category(fsys, src, dest_dir, env) ==
    LET made == create_dir_all(fsys, dest_dir, env.mkdir)
    IN  IF ~made.ok THEN [ok |-> FALSE, dest_path |-> <<>>, fs |-> made.fs]
        ELSE LET dest == dest_path(made.fs[dest_dir].children, src)
                 done == fs_copy(made.fs, src, dest_dir, dest, env.copy)
             IN  [ok |-> done.ok, dest_path |-> dest, fs |-> done.fs]

(***************************************************************************)
(* main                                                                    *)
(***************************************************************************)
ZeroCounters == [k \in CounterKeys |-> 0]
NoFailures == [read |-> {}, copy |-> {}]
NoEntry == [name |-> <<>>, ext |-> <<>>, category |-> <<>>]
NoPrev == [valid |-> FALSE, counters |-> ZeroCounters, failed |-> NoFailures]

PathStatus == {"missing", "nonexistent", "not_dir", "unreadable", "dir"}

Init ==
    /\ pc = "start"
    /\ args \in [path : PathStatus, dry_run : BOOLEAN]
    /\ fs \in InitialRoots
    /\ fs0 = fs
    /\ counters = ZeroCounters
    /\ seen = {}
    /\ failed = NoFailures
    /\ classified = NoEntry
    /\ copied = {}
    /\ exit_status = <<>>
    /\ summary = <<>>
    /\ rerun = FALSE
    /\ prev = NoPrev

Exit1 ==
    /\ pc' = "exit"
    /\ exit_status' = <<1>>
    /\ UNCHANGED <<args, fs, fs0, counters, seen, failed, classified, copied, summary, rerun, prev>>

\* args.len() < 2
UsageExit == pc = "start" /\ args.path = "missing" /\ Exit1

\* fs::canonicalize fails
CanonicalizeFail == pc = "start" /\ args.path = "nonexistent" /\ Exit1

\* mutant: the is_dir check lets everything through
is_dir_Always(path) == TRUE

is_dir(path) == path \in {"dir", "unreadable"}

\* !canonical.is_dir()
NotADirectory == pc = "start" /\ args.path \notin {"missing", "nonexistent"} /\ ~is_dir(args.path) /\ Exit1

\* fs::read_dir fails
ReadDirFail == pc = "start" /\ is_dir(args.path) /\ args.path = "unreadable" /\ Exit1

BeginWalk ==
    /\ pc = "start"
    /\ args.path \notin {"missing", "nonexistent"}
    /\ is_dir(args.path)
    /\ args.path # "unreadable"
    /\ counters' = ZeroCounters
    /\ pc' = "loop"
    /\ UNCHANGED <<args, fs, fs0, seen, failed, classified, copied, exit_status, summary, rerun, prev>>

\* mutant: a counter is incremented twice
Bump_Twice(c, key) == [c EXCEPT ![key] = @ + 2]

Bump(c, key) == [c EXCEPT ![key] = @ + 1]

\* Entries the iterator has still to yield.  Folders the run itself creates
\* may or may not be yielded.
Pending == DOMAIN fs \ seen

\* entry is Err(e); the item stands for the one entry that could not be read
ReadEntryErr ==
    /\ pc = "loop"
    /\ \E n \in Pending :
        /\ seen' = seen \cup {n}
        /\ failed' = [failed EXCEPT !.read = @ \cup {n}]
    /\ counters' = Bump(counters, Errors)
    /\ UNCHANGED <<pc, args, fs, fs0, classified, copied, exit_status, summary, rerun, prev>>

\* dir_entry.file_type() is Err(e)
FileTypeErr ==
    /\ pc = "loop"
    /\ \E n \in Pending :
        /\ seen' = seen \cup {n}
        /\ failed' = [failed EXCEPT !.read = @ \cup {n}]
    /\ counters' = Bump(counters, Errors)
    /\ UNCHANGED <<pc, args, fs, fs0, classified, copied, exit_status, summary, rerun, prev>>

SkipDir ==
    /\ pc = "loop"
    /\ \E n \in Pending :
        /\ fs[n].kind = "dir"
        /\ seen' = seen \cup {n}
    /\ UNCHANGED <<pc, args, fs, fs0, counters, failed, classified, copied, exit_status, summary, rerun, prev>>

SkipSymlink ==
    /\ pc = "loop"
    /\ \E n \in Pending :
        /\ fs[n].kind # "dir"
        /\ fs[n].kind = "symlink"
        /\ seen' = seen \cup {n}
    /\ UNCHANGED <<pc, args, fs, fs0, counters, failed, classified, copied, exit_status, summary, rerun, prev>>

\* mutant: the dry-run branch creates the category folder
dry_run_effect_Mkdir(fsys, dest_dir) == create_dir_all(fsys, dest_dir, "ok").fs

\* what the dry-run branch does to the file system
dry_run_effect(fsys, dest_dir) == fsys

DryRunEntry ==
    /\ pc = "loop"
    /\ args.dry_run
    /\ \E n \in Pending :
        /\ fs[n].kind \notin {"dir", "symlink"}
        /\ \E category \in category_for_extension(file_extension_lowercase(n), build_category_map) :
            /\ fs' = dry_run_effect(fs, category)
            /\ counters' = Bump(counters, category)
        /\ seen' = seen \cup {n}
    /\ UNCHANGED <<pc, args, fs0, failed, classified, copied, exit_status, summary, rerun, prev>>

\* mutant: a failed copy is counted under its category
counter_of_result_AlwaysCategory(ok, category) == category

\* mutant: a successful copy is counted under "Errors"
counter_of_result_AlwaysErrors(ok, category) == Errors

\* the counter a finished copy_file_to_category call increments
counter_of_result(ok, category) == IF ok THEN category ELSE Errors

CopyEntry ==
    /\ pc = "loop"
    /\ ~args.dry_run
    /\ \E n \in Pending :
        /\ fs[n].kind \notin {"dir", "symlink"}
        /\ \E category \in category_for_extension(file_extension_lowercase(n), build_category_map) :
           \E env \in CopyEnvs(fs, n, category) :
            LET r == copy_file_to_category(fs, n, category, env)
            IN  /\ fs' = r.fs
                /\ counters' = Bump(counters, counter_of_result(r.ok, category))
                /\ copied' = IF r.ok THEN copied \cup {[src |-> n, dir |-> category, dest |-> r.dest_path]} ELSE copied
                /\ failed' = IF r.ok THEN failed ELSE [failed EXCEPT !.copy = @ \cup {n}]
        /\ seen' = seen \cup {n}
    /\ UNCHANGED <<pc, args, fs0, classified, exit_status, summary, rerun, prev>>

\* the iterator is exhausted: print the summary and return from main
Finish ==
    /\ pc = "loop"
    /\ DOMAIN fs0 \subseteq seen
    /\ summary' = <<counters>>
    /\ pc' = "done"
    /\ exit_status' = <<0>>
    /\ UNCHANGED <<args, fs, fs0, counters, seen, failed, classified, copied, rerun, prev>>

\* the operator runs the program again on the same directory
Restart ==
    /\ pc = "done"
    /\ ~rerun
    /\ rerun' = TRUE
    /\ prev' = IF args.dry_run THEN [valid |-> TRUE, counters |-> counters, failed |-> failed] ELSE NoPrev
    /\ \E d \in BOOLEAN : args' = [args EXCEPT !.dry_run = d]
    /\ fs0' = fs
    /\ pc' = "start"
    /\ counters' = ZeroCounters
    /\ seen' = {}
    /\ failed' = NoFailures
    /\ copied' = {}
    /\ exit_status' = <<>>
    /\ summary' = <<>>
    /\ UNCHANGED <<fs, classified>>

Next ==
    \/ UsageExit
    \/ CanonicalizeFail
    \/ NotADirectory
    \/ ReadDirFail
    \/ BeginWalk
    \/ FileTypeErr
    \/ SkipDir
    \/ SkipSymlink
    \/ DryRunEntry
    \/ CopyEntry
    \/ ReadEntryErr
    \/ Finish
    \/ Restart

Spec == Init /\ [][Next]_vars

\* One invocation.  main is a sequential program: it keeps taking steps until
\* it returns or exits.
NextWalk ==
    \/ UsageExit
    \/ CanonicalizeFail
    \/ NotADirectory
    \/ ReadDirFail
    \/ BeginWalk
    \/ FileTypeErr
    \/ SkipDir
    \/ SkipSymlink
    \/ DryRunEntry
    \/ CopyEntry
    \/ ReadEntryErr
    \/ Finish

FairSpec == Init /\ [][NextWalk]_vars /\ WF_vars(NextWalk)

(***************************************************************************)
(* The classifier alone, on every file name up to MaxNameLen characters    *)
(***************************************************************************)
ClassifyAlphabet == {".", "c", "C", "g", "G", "z", "r", "s"}
ClassifyNames == UNION {[1..k -> ClassifyAlphabet] : k \in 1..MaxNameLen}

InitClassify ==
    /\ pc = "classify"
    /\ \E n \in ClassifyNames : classified = [NoEntry EXCEPT !.name = n]
    /\ args = [path |-> "dir", dry_run |-> TRUE]
    /\ fs = <<>>
    /\ fs0 = <<>>
    /\ counters = ZeroCounters
    /\ seen = {}
    /\ failed = NoFailures
    /\ copied = {}
    /\ exit_status = <<>>
    /\ summary = <<>>
    /\ rerun = FALSE
    /\ prev = NoPrev

\* lines 150-151 of main: ext, then category
Classify ==
    /\ pc = "classify"
    /\ \E category \in category_for_extension(file_extension_lowercase(classified.name), build_category_map) :
        classified' = [classified EXCEPT !.ext = file_extension_lowercase(classified.name), !.category = category]
    /\ pc' = "classified"
    /\ UNCHANGED <<args, fs, fs0, counters, seen, failed, copied, exit_status, summary, rerun, prev>>

NextClassify == Classify

ClassifySpec == InitClassify /\ [][NextClassify]_vars

(***************************************************************************)
(* Properties                                                              *)
(***************************************************************************)
CategorySum(c) == c[Images] + c[Documents] + c[Videos] + c[Audio] + c[Archives] + c[Code] + c[Others]
TotalSum(c) == CategorySum(c) + c[Errors]

Skippable(n) == fs[n].kind \in {"dir", "symlink"}
ChildrenOf(fsys, dir) == IF dir \in DOMAIN fsys /\ fsys[dir].kind = "dir" THEN fsys[dir].children ELSE <<>>
InRun == pc \in {"loop", "done"}

AfterLastDot(name) ==
    IF \A i \in 1..Len(name) : name[i] # "." THEN <<>>
    ELSE LET d == CHOOSE i \in 1..Len(name) : name[i] = "." /\ \A j \in 1..Len(name) : name[j] = "." => j <= i
         IN  [k \in 1..(Len(name) - d) |-> LowerChar(name[d + k])]

OnlyDotIsLeading(name) == name[1] = "." /\ \A i \in 2..Len(name) : name[i] # "."

CategoryOf(ext, result) ==
    /\ Cardinality({k \in DOMAIN build_category_map : ext \in build_category_map[k]}) <= 1
    /\ \A k \in DOMAIN build_category_map : ext \in build_category_map[k] => result = k
    /\ (\A k \in DOMAIN build_category_map : ext \notin build_category_map[k]) => result = Others

\* C2 as stated: the category of every file name is the one whose extension set
\* holds the lowercased text after the last '.', "Others" when none does; also
\* for names that begin with a dot.
C2_ClassifyByLastDot ==
    pc = "classified" => /\ classified.ext = AfterLastDot(classified.name)
                         /\ CategoryOf(AfterLastDot(classified.name), classified.category)

\* C2 amended: as C2, except that a name whose only '.' is its first character
\* (".zip") has the empty extension and is classified "Others".
C2_ClassifyByExtension ==
    pc = "classified" =>
        LET e == IF OnlyDotIsLeading(classified.name) THEN <<>> ELSE AfterLastDot(classified.name)
        IN  /\ classified.ext = e
            /\ CategoryOf(e, classified.category)

C2_Witness == pc = "classified" /\ classified.name = <<".", "r", ".", "C">> /\ classified.category = Code

\* C3: every write into a category folder goes to a path that did not exist
\* before the call, and no file already in a category folder changes: paths
\* handed out over any sequence of calls, in one run or over two, are distinct.
C3_CollisionFree ==
    [][ /\ \A dir \in DOMAIN fs : \A name \in DOMAIN ChildrenOf(fs, dir) :
             /\ name \in DOMAIN ChildrenOf(fs', dir)
             /\ ChildrenOf(fs', dir)[name] = ChildrenOf(fs, dir)[name]
        /\ \A c \in copied' \ copied :
             /\ c.dest \notin DOMAIN ChildrenOf(fs, c.dir)
             /\ c.dest \in DOMAIN ChildrenOf(fs', c.dir)
        /\ \A c1, c2 \in copied' : (c1.dir = c2.dir /\ c1.dest = c2.dest) => c1 = c2 ]_vars

C3_Witness ==
    /\ rerun
    /\ \E c \in copied : c.src = a_jpg /\ c.dest # a_jpg
    /\ a_jpg \in DOMAIN ChildrenOf(fs0, Images)
    /\ Cardinality(DOMAIN ChildrenOf(fs, Images)) >= 2

\* C4: a dry-run leaves the file system as it found it, and a second dry-run
\* that meets the same unreadable entries prints the same counters.
C4_DryRunFrame ==
    /\ args.dry_run => fs = fs0
    /\ (pc = "done" /\ rerun /\ prev.valid /\ args.dry_run /\ failed.read = prev.failed.read)
          => counters = prev.counters

C4_Witness ==
    /\ pc = "done" /\ rerun /\ prev.valid /\ args.dry_run /\ failed.read = prev.failed.read
    /\ CategorySum(counters) >= 2

\* C5: in a copy run every regular file of the scan root stays where it was
\* with its content, and every file reported as copied has a destination with
\* the content of its source.
C5_SourcesIntact ==
    (~args.dry_run /\ InRun) =>
        /\ \A n \in DOMAIN fs0 : fs0[n].kind = "file" => (n \in DOMAIN fs /\ fs[n] = fs0[n])
        /\ \A c \in copied : /\ c.dest \in DOMAIN ChildrenOf(fs, c.dir)
                             /\ ChildrenOf(fs, c.dir)[c.dest] = fs[c.src].content

C5_Witness == pc = "done" /\ ~args.dry_run /\ Cardinality(copied) >= 2

\* C6: an entry that fails (unreadable entry or file type, directory creation
\* or copy failure) adds exactly one to "Errors", nothing to any category, and
\* the walk goes on: the run ends with the summary and every entry enumerated.
C6_FailureIsolated ==
    /\ [][ (failed' # failed /\ rerun' = rerun)
              => /\ counters' = [counters EXCEPT ![Errors] = @ + 1]
                 /\ pc' = "loop"
                 /\ exit_status' = <<>> ]_vars
    /\ [](pc = "loop" => <>(pc = "done" /\ DOMAIN fs0 \subseteq seen /\ summary = <<counters>> /\ exit_status = <<0>>))

C6_Witness == pc = "done" /\ failed.read # {} /\ failed.copy # {} /\ copied # {}

\* C7: with a path that does not exist or is no directory the program ends
\* with status 1 and has enumerated, counted, created and copied nothing.
C7_InvalidPathExits ==
    (args.path \in {"nonexistent", "not_dir"} /\ pc # "start")
        => /\ pc = "exit"
           /\ exit_status = <<1>>
           /\ fs = fs0
           /\ seen = {}
           /\ counters = ZeroCounters
           /\ copied = {}
           /\ summary = <<>>

C7_Witness == pc = "exit" /\ args.path = "not_dir" /\ exit_status = <<1>> /\ DOMAIN fs # {}

\* The name the claim gives the N-th candidate: stem, "_", N, then the
\* extension with its dot (nothing when the file has no extension).
Candidate(name, N) ==
    LET cut == IF LastDot(name) > 1 /\ name # <<".", ".">> THEN LastDot(name) - 1 ELSE Len(name)
    IN  SubSeq(name, 1, cut) \o <<"_">> \o Decimal(N) \o SubSeq(name, cut + 1, Len(name))

ChosenByRule(dest, name, pre) ==
    IF name \notin DOMAIN pre THEN dest = name
    ELSE \E N \in 1..(Cardinality(DOMAIN pre) + 1) :
            /\ dest = Candidate(name, N)
            /\ dest \notin DOMAIN pre
            /\ \A M \in 1..(N - 1) : Candidate(name, M) \in DOMAIN pre

C9_SumEqualsNonDirEntries ==
    pc = "done" => TotalSum(counters) = Cardinality({n \in seen : ~Skippable(n)})

\* C9 amended: the counters start at 0 and never decrease; an enumerated entry
\* whose file type is read and is directory or symlink changes no counter and
\* nothing on disk; every other enumerated entry (a directory or symlink whose
\* entry or file type cannot be read included) adds exactly 1 to exactly one
\* counter; the counters always add up to the number of such entries.
C9_ExactlyOnce ==
    [][ /\ pc' = "loop" /\ pc = "start" => counters' = ZeroCounters
        /\ rerun' = rerun => \A k \in CounterKeys : counters'[k] >= counters[k]
        /\ \A n \in seen' \ seen :
              IF fs[n].kind \in {"dir", "symlink"} /\ n \notin failed'.read
              THEN counters' = counters /\ fs' = fs /\ copied' = copied
              ELSE \E k \in CounterKeys : counters' = [counters EXCEPT ![k] = @ + 1]
        /\ pc' \in {"loop", "done"}
              => TotalSum(counters') = Cardinality({n \in seen' : ~(fs'[n].kind \in {"dir", "symlink"} /\ n \notin failed'.read)}) ]_vars

C9_Witness ==
    /\ pc = "done"
    /\ \E n \in failed.read : Skippable(n)
    /\ \E n \in seen \ failed.read : Skippable(n)
    /\ CategorySum(counters) >= 1

\* C10: a copy run that follows a dry-run on the same contents and meets the
\* same unreadable entries counts no category higher than the dry-run did, the
\* shortfall is what "Errors" gained, and with no directory creation or copy
\* failure the two summaries are the same.
C10_DryRunPredictsCopy ==
    (pc = "done" /\ rerun /\ prev.valid /\ ~args.dry_run /\ failed.read = prev.failed.read)
        => /\ \A k \in CategoryKeys : counters[k] <= prev.counters[k]
           /\ CategorySum(prev.counters) - CategorySum(counters) = counters[Errors] - prev.counters[Errors]
           /\ failed.copy = {} => counters = prev.counters

C10_Witness ==
    /\ pc = "done" /\ rerun /\ prev.valid /\ ~args.dry_run /\ failed.read = prev.failed.read
    /\ failed.copy = {}
    /\ CategorySum(counters) >= 2

====
